---- MODULE Spec2Model ----
(***************************************************************************)
(* Conversation-state and response-enrichment engine of the movie          *)
(* recommendation backend (llm_motor.py), together with the Flask routes   *)
(* of app.py that drive the one process-wide engine.                       *)
(*                                                                         *)
(* A text is a sequence of one-character strings.  A Python value that may *)
(* be None, a str or a number is a tagged record (None, Str(s), Num(n)).   *)
(***************************************************************************)
EXTENDS Integers, Sequences, FiniteSets, TLC

(* ------------------------------ bounds --------------------------------- *)

\* number of calls a caller of the engine makes
MaxCalls == 3

\* number of requests the service receives
MaxRequests == 2

\* number of request threads of the Flask development server that are modelled
NumThreads == 2

(* --------------------------- Python values ----------------------------- *)

None == [type |-> "NoneType"]

Str(s) == [type |-> "str", val |-> s]

Num(n) == [type |-> "int", val |-> n]

\* bool(v): the truth value Python gives a value in `not v`
Truthy(v) ==
  CASE v.type = "NoneType" -> FALSE
    [] v.type = "str" -> v.val # <<>>
    [] v.type = "int" -> v.val # 0
    [] OTHER -> TRUE

\* isinstance(v, str)
IsStr(v) == v.type = "str"

(* ------------------------------- texts --------------------------------- *)

Whitespace == {" ", "\t", "\n", "\r"}

Digits == {"0", "1", "2", "3", "4", "5", "6", "7", "8", "9"}

Upper == {"A", "B", "C", "D", "E", "F", "G", "H", "I", "J", "K", "L", "M",
          "N", "O", "P", "Q", "R", "S", "T", "U", "V", "W", "X", "Y", "Z"}

opening_message ==
  <<"H", "e", "l", "l", "o", "!", " ", "I", "'", "m", " ", "y", "o", "u",
    "r", " ", "m", "o", "v", "i", "e", " ", "r", "e", "c", "o", "m", "m",
    "e", "n", "d", "a", "t", "i", "o", "n", " ", "a", "s", "s", "i", "s",
    "t", "a", "n", "t", ".", " ", "H", "o", "w", " ", "c", "a", "n", " ",
    "I", " ", "h", "e", "l", "p", " ", "y", "o", "u", " ", "f", "i", "n",
    "d", " ", "s", "o", "m", "e", "t", "h", "i", "n", "g", " ", "g", "r",
    "e", "a", "t", " ", "t", "o", " ", "w", "a", "t", "c", "h", " ", "t",
    "o", "d", "a", "y", "?">>

\* "https://image.tmdb.org/t/p/w500"
PosterBase ==
  <<"h", "t", "t", "p", "s", ":", "/", "/", "i", "m", "a", "g", "e", ".",
    "t", "m", "d", "b", ".", "o", "r", "g", "/", "t", "/", "p", "/", "w",
    "5", "0", "0">>

(* ------------------------- title extraction ---------------------------- *)

\* index of the first double quote of s at or after i, 0 when there is none
RECURSIVE NextQuote(_, _)
NextQuote(s, i) ==
  IF i > Len(s) THEN 0
  ELSE IF s[i] = "\"" THEN i
  ELSE NextQuote(s, i + 1)

\* FindQuotedFrom that goes on from the closing quote of a match, so that the
\* quote closing one span opens the next
RECURSIVE FindQuotedFromReopening(_, _)
FindQuotedFromReopening(s, i) ==
  LET j == NextQuote(s, i)
      k == IF j = 0 THEN 0 ELSE NextQuote(s, j + 1)
  IN  IF j = 0 \/ k = 0 THEN <<>>
      ELSE IF k = j + 1 THEN FindQuotedFromReopening(s, j + 1)
      ELSE <<SubSeq(s, j + 1, k - 1)>> \o FindQuotedFromReopening(s, k)

\* re.findall(r'"([^"]+)"', s) scanning from index i
RECURSIVE FindQuotedFrom(_, _)
FindQuotedFrom(s, i) ==
  LET j == NextQuote(s, i)
      k == IF j = 0 THEN 0 ELSE NextQuote(s, j + 1)
  IN  IF j = 0 \/ k = 0 THEN <<>>
      ELSE IF k = j + 1 THEN FindQuotedFrom(s, j + 1)
      ELSE <<SubSeq(s, j + 1, k - 1)>> \o FindQuotedFrom(s, k + 1)

FindQuoted(s) == FindQuotedFrom(s, 1)

\* first index at or after i whose character is not whitespace (Len(s)+1 at the end)
RECURSIVE SkipSpace(_, _)
SkipSpace(s, i) ==
  IF i <= Len(s) /\ s[i] \in Whitespace THEN SkipSpace(s, i + 1) ELSE i

\* first index at or after i whose character is not a digit
RECURSIVE SkipDigits(_, _)
SkipDigits(s, i) ==
  IF i <= Len(s) /\ s[i] \in Digits THEN SkipDigits(s, i + 1) ELSE i

\* ^ under re.MULTILINE: i is the start of the text or follows a newline
AtLineStart(s, i) == i = 1 \/ s[i - 1] = "\n"

\* $ under re.MULTILINE: i is past the end of the text or at a newline
AtLineEnd(s, i) == i = Len(s) + 1 \/ s[i] = "\n"

\* GroupStart that takes a capital anywhere, not only at the start of a line
GroupStartAnywhere(s, i) ==
  LET d == SkipDigits(s, i)
      afterNum == IF d > i /\ d <= Len(s) /\ s[d] = "."
                     /\ SkipSpace(s, d + 1) > d + 1
                  THEN SkipSpace(s, d + 1) ELSE 0
      afterColon == IF i <= Len(s) /\ s[i] = ":" /\ SkipSpace(s, i + 1) > i + 1
                    THEN SkipSpace(s, i + 1) ELSE 0
  IN  IF i <= Len(s) /\ s[i] \in Upper THEN i
      ELSE IF afterNum # 0 THEN afterNum
      ELSE afterColon

\* (?:^|\d+\.\s+|\:\s+) at index i: the index where the group starts, 0 on no match.
\* The three alternatives need a different character at the group start, at i
\* or at the index the marker ends, so at most one of them leads to a match of
\* the whole pattern and trying them in the pattern's order is this choice.
GroupStart(s, i) ==
  LET d == SkipDigits(s, i)
      afterNum == IF d > i /\ d <= Len(s) /\ s[d] = "."
                     /\ SkipSpace(s, d + 1) > d + 1
                  THEN SkipSpace(s, d + 1) ELSE 0
      afterColon == IF i <= Len(s) /\ s[i] = ":" /\ SkipSpace(s, i + 1) > i + 1
                    THEN SkipSpace(s, i + 1) ELSE 0
  IN  IF AtLineStart(s, i) /\ i <= Len(s) /\ s[i] \in Upper THEN i
      ELSE IF afterNum # 0 THEN afterNum
      ELSE afterColon

\* (?=\s+\(|\s+-|\.|$) at index e
Lookahead(s, e) ==
  \/ \E m \in (e + 1)..Len(s) :
        /\ \A x \in e..(m - 1) : s[x] \in Whitespace
        /\ s[m] \in {"(", "-"}
  \/ e <= Len(s) /\ s[e] = "."
  \/ AtLineEnd(s, e)

\* [^\.!?]+? after the capital at g: the least end index e (exclusive) of the
\* group for which the lookahead holds, 0 when there is none
RECURSIVE GroupEnd(_, _, _)
GroupEnd(s, g, e) ==
  IF e > Len(s) + 1 THEN 0
  ELSE IF s[e - 1] \in {".", "!", "?"} THEN 0
  ELSE IF Lookahead(s, e) THEN e
  ELSE GroupEnd(s, g, e + 1)

\* re.findall(r'(?:^|\d+\.\s+|\:\s+)([A-Z][^\.!?]+?)(?=\s+\(|\s+-|\.|$)', s,
\*            re.MULTILINE) scanning from index i
RECURSIVE FindStructuralFrom(_, _)
FindStructuralFrom(s, i) ==
  IF i > Len(s) THEN <<>>
  ELSE LET g == GroupStart(s, i)
           e == IF g # 0 /\ g + 1 <= Len(s) /\ s[g] \in Upper
                THEN GroupEnd(s, g, g + 2) ELSE 0
       IN  IF e = 0 THEN FindStructuralFrom(s, i + 1)
           ELSE <<SubSeq(s, g, e - 1)>> \o FindStructuralFrom(s, e)

FindStructural(s) == FindStructuralFrom(s, 1)

\* movie_titles that puts the matches of both patterns together
movie_titles_Merged(response) ==
  FindQuoted(response) \o FindStructural(response)

\* lines 91-96: the quoted tier, and the structural tier only when it is empty
movie_titles(response) ==
  IF FindQuoted(response) # <<>> THEN FindQuoted(response)
  ELSE FindStructural(response)

\* str.strip()
RECURSIVE strip(_)
strip(s) ==
  IF s = <<>> THEN s
  ELSE IF s[1] \in Whitespace THEN strip(Tail(s))
  ELSE IF s[Len(s)] \in Whitespace THEN strip(SubSeq(s, 1, Len(s) - 1))
  ELSE s

(* ------------------------------ inputs --------------------------------- *)

\* prompts a caller may pass to generate_response: two texts, the empty text
\* and values that are not texts
Prompts == {Str(<<"h", "i">>), Str(<<"s", "c", "i", "f", "i">>), Str(<<>>),
            None, Num(0), Num(7)}

\* Try "Dune" or "Up"
ReplyQuoted ==
  <<"T", "r", "y", " ", "\"", "D", "u", "n", "e", "\"", " ", "o", "r", " ",
    "\"", "U", "p", "\"">>

\* 1. Arrival (2016)
ReplyList ==
  <<"1", ".", " ", "A", "r", "r", "i", "v", "a", "l", " ", "(", "2", "0",
    "1", "6", ")">>

\* "Heat", " Heat " or "Her"
ReplyTwice ==
  <<"\"", "H", "e", "a", "t", "\"", ",", " ", "\"", " ", "H", "e", "a",
    "t", " ", "\"", " ", "o", "r", " ", "\"", "H", "e", "r", "\"">>

\* texts the language model may answer with (response.content)
Replies == {<<>>, ReplyQuoted, ReplyList, ReplyTwice}

\* exception classes the model invocation may raise
ModelExceptions == {"APIConnectionError", "ValueError"}

\* values of the TMDB_API_KEY environment variable: unset, empty, set
ApiKeys == {None, Str(<<>>), Str(<<"k">>)}

\* an entry of the catalog's result list with a poster
MovieWithPoster ==
  [title |-> Str(<<"D", "u", "n", "e">>),
   poster_path |-> Str(<<"/", "a", ".", "j", "p", "g">>),
   overview |-> Str(<<"A", " ", "d", "u", "k", "e", ".">>),
   release_date |-> Str(<<"2", "0", "2", "1">>),
   vote_average |-> Num(8),
   id |-> Num(438631)]

\* an entry whose poster_path is null and whose release_date key is missing
MovieNoPoster ==
  [title |-> Str(<<"U", "p">>),
   poster_path |-> None,
   overview |-> Str(<<>>),
   vote_average |-> Num(0),
   id |-> Num(14160)]

\* what one requests.get(search_url) / response.json() may produce: an
\* exception (no connection, a body that is not JSON), or the decoded JSON:
\* an object with or without a results list, a value that is not an object,
\* a results list whose first entry is not an object
CatalogOutcomes ==
  {[kind |-> "raise"],
   [kind |-> "json", data |-> [status_code |-> Num(7)]],
   [kind |-> "json", data |-> [results |-> <<>>]],
   [kind |-> "json", data |-> None],
   [kind |-> "json", data |-> [results |-> <<Str(<<"x">>)>>]],
   [kind |-> "json", data |-> [results |-> <<MovieWithPoster, MovieNoPoster>>]],
   [kind |-> "json", data |-> [results |-> <<MovieNoPoster, MovieWithPoster>>]]}

(* ------------------------------- state --------------------------------- *)

VARIABLES
  messages,      \* self.memory.chat_memory.messages: the session log
  tmdb_api_key,  \* self.tmdb_api_key
  pc,            \* per thread: where its current engine call stands
  route,         \* per thread: the Flask route being served, "" for a direct call
  prompt,        \* per thread: argument of the current generate_response call
  pre,           \* per thread: the log when the current call was entered
  sent,          \* per thread: the messages handed to movie_agent.invoke
  response,      \* per thread: response.content
  titles,        \* per thread: movie_titles still to be processed by the loop
  movies,        \* per thread: enhanced_data["movies"]
  result,        \* per thread: how the last call ended
  status,        \* per thread: HTTP status of the last response, 0 if none
  invoked,       \* per thread: the current call has invoked the model
  lookups,       \* per thread: catalog requests issued by the current call
  lookup,        \* per thread: the last _get_movie_info call of the current
                 \* call: its title, what the catalog produced, its return
  candidates,    \* per thread: movie_titles, the list lines 91-96 produced
  ncalls,        \* number of engine calls and requests entered so far
  previous       \* the engine call completed before the last one: its
                 \* operation, argument, the log it was entered on, its end

vars == <<messages, tmdb_api_key, pc, route, prompt, pre, sent, response,
          titles, movies, result, status, invoked, lookups, lookup,
          candidates, ncalls, previous>>

Threads == DOMAIN pc

\* langchain_core.messages: what add_user_message and add_ai_message append
HumanMessage(content) == [type |-> "human", content |-> content]

AIMessage(content) == [type |-> "ai", content |-> content]

NoResult == [op |-> "", kind |-> "none", exc |-> ""]

NoLookup == [title |-> <<>>, outcome |-> [kind |-> "none"], record |-> None]

NoCall == [op |-> "", prompt |-> None, pre |-> <<>>, kind |-> "none"]

InitFor(T) ==
  /\ messages = <<>>
  /\ tmdb_api_key \in ApiKeys
  /\ pc = [t \in T |-> "idle"]
  /\ route = [t \in T |-> ""]
  /\ prompt = [t \in T |-> None]
  /\ pre = [t \in T |-> <<>>]
  /\ sent = [t \in T |-> <<>>]
  /\ response = [t \in T |-> <<>>]
  /\ titles = [t \in T |-> <<>>]
  /\ movies = [t \in T |-> <<>>]
  /\ result = [t \in T |-> NoResult]
  /\ status = [t \in T |-> 0]
  /\ invoked = [t \in T |-> FALSE]
  /\ lookups = [t \in T |-> 0]
  /\ lookup = [t \in T |-> NoLookup]
  /\ candidates = [t \in T |-> <<>>]
  /\ ncalls = 0
  /\ previous = NoCall

\* the engine used by one caller that makes one call at a time
Init == InitFor({1})

\* app.py line 25 and line 139: one engine for all request threads
SvcInit == InitFor(1..NumThreads)

(* --------------------------- MetadataResolver -------------------------- *)

\* dict.get(key): the value, None when the key is missing
Get(d, key) == IF key \in DOMAIN d THEN d[key] ELSE None

\* lines 113 and 137: the record returned when there is nothing to report
Placeholder(title) == [title |-> title, poster_url |-> None, overview |-> None]

\* line 120: data.get('results') and len(data['results']) > 0
HasResults(data) == "results" \in DOMAIN data /\ Len(data.results) > 0

\* a decoded JSON object is the record of its keys, any other value carries
\* its type; .get on a value that is not an object raises AttributeError
IsObject(v) == "type" \notin DOMAIN v

\* lines 121-133: the record built from the first entry of the result list
MovieRecord(title, movie) ==
  LET poster_path == Get(movie, "poster_path")
  IN  [title |-> title,
       tmdb_title |-> Get(movie, "title"),
       poster_url |-> IF Truthy(poster_path)
                      THEN Str(PosterBase \o poster_path.val) ELSE None,
       overview |-> Get(movie, "overview"),
       release_date |-> Get(movie, "release_date"),
       vote_average |-> Get(movie, "vote_average"),
       tmdb_id |-> Get(movie, "id")]

\* get_movie_info that builds the record from the last entry of the result
\* list
get_movie_info_LastMatch(key, title, outcome) ==
  IF ~Truthy(key) THEN Placeholder(title)
  ELSE IF /\ outcome.kind = "json"
          /\ IsObject(outcome.data)
          /\ HasResults(outcome.data)
          /\ IsObject(outcome.data.results[1])
       THEN MovieRecord(title, outcome.data.results[Len(outcome.data.results)])
  ELSE Placeholder(title)

\* get_movie_info without the return of line 137: the function falls off its
\* end and returns None
get_movie_info_NoFallback(key, title, outcome) ==
  IF ~Truthy(key) THEN Placeholder(title)
  ELSE IF /\ outcome.kind = "json"
          /\ IsObject(outcome.data)
          /\ HasResults(outcome.data)
          /\ IsObject(outcome.data.results[1])
       THEN MovieRecord(title, outcome.data.results[1])
  ELSE None

\* _get_movie_info(title) for a given key, where outcome is what the catalog
\* request produces when one is issued
get_movie_info(key, title, outcome) ==
  IF ~Truthy(key) THEN Placeholder(title)
  ELSE IF /\ outcome.kind = "json"
          /\ IsObject(outcome.data)
          /\ HasResults(outcome.data)
          /\ IsObject(outcome.data.results[1])
       THEN MovieRecord(title, outcome.data.results[1])
  ELSE Placeholder(title)

(* ------------------------------ service -------------------------------- *)

\* app.py: the status of the response a route sends for the way the engine
\* call ended; 0 for a call that did not come through a route
StatusFor(rt, res) ==
  IF rt = "" THEN 0
  ELSE IF res.kind = "return" THEN 200
  ELSE IF rt \in {"/api/send-message", "/recommend"} /\ res.exc = "ValueError"
       THEN 400
  ELSE 500

\* thread t leaves its engine call with result res
Finish(t, rt, res) ==
  /\ pc' = [pc EXCEPT ![t] = "idle"]
  /\ result' = [result EXCEPT ![t] = res]
  /\ status' = [status EXCEPT ![t] = StatusFor(rt, res)]

\* the locals of the call of thread t are gone when it returns or raises
Drop(t) ==
  /\ sent' = [sent EXCEPT ![t] = <<>>]
  /\ response' = [response EXCEPT ![t] = <<>>]
  /\ titles' = [titles EXCEPT ![t] = <<>>]
  /\ movies' = [movies EXCEPT ![t] = <<>>]
  /\ lookup' = [lookup EXCEPT ![t] = NoLookup]
  /\ candidates' = [candidates EXCEPT ![t] = <<>>]

\* thread t enters an engine call: its locals are fresh
Enter(t, rt, p) ==
  /\ pc[t] = "idle"
  /\ ncalls < (IF rt = "" THEN MaxCalls ELSE MaxRequests)
  /\ ncalls' = ncalls + 1
  /\ previous' = [op |-> result[t].op, prompt |-> prompt[t], pre |-> pre[t],
                   kind |-> result[t].kind]
  /\ route' = [route EXCEPT ![t] = rt]
  /\ prompt' = [prompt EXCEPT ![t] = p]
  /\ pre' = [pre EXCEPT ![t] = messages]
  /\ sent' = [sent EXCEPT ![t] = <<>>]
  /\ response' = [response EXCEPT ![t] = <<>>]
  /\ titles' = [titles EXCEPT ![t] = <<>>]
  /\ movies' = [movies EXCEPT ![t] = <<>>]
  /\ invoked' = [invoked EXCEPT ![t] = FALSE]
  /\ lookups' = [lookups EXCEPT ![t] = 0]
  /\ lookup' = [lookup EXCEPT ![t] = NoLookup]
  /\ candidates' = [candidates EXCEPT ![t] = <<>>]
  /\ UNCHANGED tmdb_api_key

(* ------------------------------- engine -------------------------------- *)

Raised(op, exc) == [op |-> op, kind |-> "raise", exc |-> exc]

Returned(op, value) == [op |-> op, kind |-> "return", exc |-> "", value |-> value]

\* GenerateEntry with the emptiness test of line 72 left out
GenerateEntryNoEmptyCheck(t, rt, p) ==
  /\ Enter(t, rt, p)
  /\ IF ~IsStr(p)
     THEN /\ Finish(t, rt, Raised("generate_response", "ValueError"))
          /\ UNCHANGED messages
     ELSE /\ messages' = Append(messages, HumanMessage(p.val))
          /\ pc' = [pc EXCEPT ![t] = "invoke"]
          /\ UNCHANGED <<result, status>>

\* GenerateEntry that does not log a prompt equal to the last user turn
GenerateEntryDedup(t, rt, p) ==
  /\ Enter(t, rt, p)
  /\ IF ~Truthy(p) \/ ~IsStr(p)
     THEN /\ Finish(t, rt, Raised("generate_response", "ValueError"))
          /\ UNCHANGED messages
     ELSE /\ messages' = IF messages # <<>>
                            /\ messages[Len(messages)] = HumanMessage(p.val)
                         THEN messages
                         ELSE Append(messages, HumanMessage(p.val))
          /\ pc' = [pc EXCEPT ![t] = "invoke"]
          /\ UNCHANGED <<result, status>>

\* lines 72-76: the prompt check, then add_user_message(prompt)
GenerateEntry(t, rt, p) ==
  /\ Enter(t, rt, p)
  /\ IF ~Truthy(p) \/ ~IsStr(p)
     THEN /\ Finish(t, rt, Raised("generate_response", "ValueError"))
          /\ UNCHANGED messages
     ELSE /\ messages' = Append(messages, HumanMessage(p.val))
          /\ pc' = [pc EXCEPT ![t] = "invoke"]
          /\ UNCHANGED <<result, status>>

\* generate_response(prompt) called on the engine
generate_response(t, p) == GenerateEntry(t, "", p)

\* Invoke that sends the log as it was before the prompt was added
InvokeStale(t) ==
  /\ pc[t] = "invoke"
  /\ sent' = [sent EXCEPT ![t] = pre[t]]
  /\ invoked' = [invoked EXCEPT ![t] = TRUE]
  /\ pc' = [pc EXCEPT ![t] = "waiting"]
  /\ UNCHANGED <<messages, tmdb_api_key, route, prompt, pre, response, titles,
                 movies, result, status, lookups, previous, ncalls, lookup, candidates>>

\* line 77: movie_agent.invoke reads the log and sends it to the model
Invoke(t) ==
  /\ pc[t] = "invoke"
  /\ sent' = [sent EXCEPT ![t] = messages]
  /\ invoked' = [invoked EXCEPT ![t] = TRUE]
  /\ pc' = [pc EXCEPT ![t] = "waiting"]
  /\ UNCHANGED <<messages, tmdb_api_key, route, prompt, pre, response, titles,
                 movies, result, status, lookups, previous, ncalls, lookup, candidates>>

\* ModelReplies without the add_ai_message of line 78
ModelRepliesUnlogged(t, r) ==
  /\ pc[t] = "waiting"
  /\ response' = [response EXCEPT ![t] = r]
  /\ candidates' = [candidates EXCEPT ![t] = movie_titles(r)]
  /\ titles' = [titles EXCEPT ![t] = movie_titles(r)]
  /\ pc' = [pc EXCEPT ![t] = "enhance"]
  /\ UNCHANGED <<messages, tmdb_api_key, route, prompt, pre, sent, movies,
                 result, status, invoked, lookups, previous, ncalls, lookup>>

\* lines 77-78 and 91-96: the model answers r; add_ai_message(r), then the
\* titles are extracted from r
ModelReplies(t, r) ==
  /\ pc[t] = "waiting"
  /\ messages' = Append(messages, AIMessage(r))
  /\ response' = [response EXCEPT ![t] = r]
  /\ candidates' = [candidates EXCEPT ![t] = movie_titles(r)]
  /\ titles' = [titles EXCEPT ![t] = movie_titles(r)]
  /\ pc' = [pc EXCEPT ![t] = "enhance"]
  /\ UNCHANGED <<tmdb_api_key, route, prompt, pre, sent, movies, result,
                 status, invoked, lookups, previous, ncalls, lookup>>

\* ModelRaises that takes the user turn back out of the log
ModelRaisesRollback(t, exc) ==
  /\ pc[t] = "waiting"
  /\ messages' = SubSeq(messages, 1, Len(messages) - 1)
  /\ Finish(t, route[t], Raised("generate_response", exc))
  /\ Drop(t)
  /\ UNCHANGED <<tmdb_api_key, route, prompt, pre, invoked, lookups,
                 previous, ncalls>>

\* lines 84-86: the invocation raises; the exception is logged and re-raised
ModelRaises(t, exc) ==
  /\ pc[t] = "waiting"
  /\ Finish(t, route[t], Raised("generate_response", exc))
  /\ Drop(t)
  /\ UNCHANGED <<messages, tmdb_api_key, route, prompt, pre, invoked, lookups,
                 previous, ncalls>>

\* lines 31-35: the chat model is built without a timeout, so an invocation
\* that gets no answer keeps its thread waiting
ModelNeverAnswers(t) ==
  /\ pc[t] = "waiting"
  /\ pc' = [pc EXCEPT ![t] = "blocked"]
  /\ UNCHANGED <<messages, tmdb_api_key, route, prompt, pre, sent, response,
                 titles, movies, result, status, invoked, lookups, previous, ncalls, lookup, candidates>>

\* line 104: `if movie_info:` holds for a dict with at least one key
NonEmptyDict(d) == d # None /\ DOMAIN d # {}

\* EnhanceTitle that skips a title for which a record was already made
EnhanceTitleDedup(t, outcome) ==
  /\ pc[t] = "enhance"
  /\ titles[t] # <<>>
  /\ LET title == strip(Head(titles[t]))
         movie_info == get_movie_info(tmdb_api_key, title, outcome)
     IN  IF /\ Len(title) > 3
            /\ \A i \in 1..Len(movies[t]) : movies[t][i].title # title
         THEN /\ movies' = [movies EXCEPT
                   ![t] = IF NonEmptyDict(movie_info)
                          THEN Append(@, movie_info) ELSE @]
              /\ lookups' = [lookups EXCEPT
                   ![t] = IF Truthy(tmdb_api_key) THEN @ + 1 ELSE @]
              /\ lookup' = [lookup EXCEPT
                   ![t] = [title |-> title,
                           outcome |-> IF Truthy(tmdb_api_key) THEN outcome
                                       ELSE [kind |-> "none"],
                           record |-> movie_info]]
         ELSE UNCHANGED <<movies, lookups, lookup>>
  /\ titles' = [titles EXCEPT ![t] = Tail(@)]
  /\ UNCHANGED <<messages, tmdb_api_key, pc, route, prompt, pre, sent, response,
                 result, status, invoked, previous, ncalls, candidates>>

\* EnhanceTitle whose length test lets a title of 3 characters through
EnhanceTitleFloorThree(t, outcome) ==
  /\ pc[t] = "enhance"
  /\ titles[t] # <<>>
  /\ LET title == strip(Head(titles[t]))
         movie_info == get_movie_info(tmdb_api_key, title, outcome)
     IN  IF Len(title) >= 3
         THEN /\ movies' = [movies EXCEPT
                   ![t] = IF NonEmptyDict(movie_info)
                          THEN Append(@, movie_info) ELSE @]
              /\ lookups' = [lookups EXCEPT
                   ![t] = IF Truthy(tmdb_api_key) THEN @ + 1 ELSE @]
              /\ lookup' = [lookup EXCEPT
                   ![t] = [title |-> title,
                           outcome |-> IF Truthy(tmdb_api_key) THEN outcome
                                       ELSE [kind |-> "none"],
                           record |-> movie_info]]
         ELSE UNCHANGED <<movies, lookups, lookup>>
  /\ titles' = [titles EXCEPT ![t] = Tail(@)]
  /\ UNCHANGED <<messages, tmdb_api_key, pc, route, prompt, pre, sent, response,
                 result, status, invoked, previous, ncalls, candidates>>

\* EnhanceTitle that takes the assistant turn back out of the log when the
\* catalog request of a title raises
EnhanceTitleRollsBack(t, outcome) ==
  /\ pc[t] = "enhance"
  /\ titles[t] # <<>>
  /\ LET title == strip(Head(titles[t]))
         movie_info == get_movie_info(tmdb_api_key, title, outcome)
     IN  IF Len(title) > 3
         THEN /\ movies' = [movies EXCEPT
                   ![t] = IF NonEmptyDict(movie_info)
                          THEN Append(@, movie_info) ELSE @]
              /\ lookups' = [lookups EXCEPT
                   ![t] = IF Truthy(tmdb_api_key) THEN @ + 1 ELSE @]
              /\ lookup' = [lookup EXCEPT
                   ![t] = [title |-> title,
                           outcome |-> IF Truthy(tmdb_api_key) THEN outcome
                                       ELSE [kind |-> "none"],
                           record |-> movie_info]]
              /\ messages' = IF /\ Truthy(tmdb_api_key)
                                /\ outcome.kind = "raise"
                                /\ messages # <<>>
                             THEN SubSeq(messages, 1, Len(messages) - 1)
                             ELSE messages
         ELSE UNCHANGED <<movies, lookups, lookup, messages>>
  /\ titles' = [titles EXCEPT ![t] = Tail(@)]
  /\ UNCHANGED <<tmdb_api_key, pc, route, prompt, pre, sent, response,
                 result, status, invoked, previous, ncalls, candidates>>

\* EnhanceTitle in which an exception of the catalog request is not caught
\* and ends the call
EnhanceTitleRaising(t, outcome) ==
  /\ pc[t] = "enhance"
  /\ titles[t] # <<>>
  /\ LET title == strip(Head(titles[t]))
         movie_info == get_movie_info(tmdb_api_key, title, outcome)
     IN  IF Len(title) > 3 /\ Truthy(tmdb_api_key) /\ outcome.kind = "raise"
         THEN /\ Finish(t, route[t], Raised("generate_response", "ConnectionError"))
              /\ Drop(t)
              /\ lookups' = [lookups EXCEPT ![t] = @ + 1]
         ELSE /\ IF Len(title) > 3
                 THEN /\ movies' = [movies EXCEPT
                           ![t] = IF NonEmptyDict(movie_info)
                                  THEN Append(@, movie_info) ELSE @]
                      /\ lookups' = [lookups EXCEPT
                           ![t] = IF Truthy(tmdb_api_key) THEN @ + 1 ELSE @]
                      /\ lookup' = [lookup EXCEPT
                           ![t] = [title |-> title,
                                   outcome |-> IF Truthy(tmdb_api_key) THEN outcome
                                               ELSE [kind |-> "none"],
                                   record |-> movie_info]]
                 ELSE UNCHANGED <<movies, lookups, lookup>>
              /\ titles' = [titles EXCEPT ![t] = Tail(@)]
              /\ UNCHANGED <<pc, sent, response, result, status, candidates>>
  /\ UNCHANGED <<messages, tmdb_api_key, route, prompt, pre, invoked,
                 previous, ncalls>>

\* lines 100-105: one iteration of the loop over movie_titles, where outcome
\* is what the catalog request of this iteration produces if one is issued
EnhanceTitle(t, outcome) ==
  /\ pc[t] = "enhance"
  /\ titles[t] # <<>>
  /\ LET title == strip(Head(titles[t]))
         movie_info == get_movie_info(tmdb_api_key, title, outcome)
     IN  IF Len(title) > 3
         THEN /\ movies' = [movies EXCEPT
                   ![t] = IF NonEmptyDict(movie_info)
                          THEN Append(@, movie_info) ELSE @]
              /\ lookups' = [lookups EXCEPT
                   ![t] = IF Truthy(tmdb_api_key) THEN @ + 1 ELSE @]
              /\ lookup' = [lookup EXCEPT
                   ![t] = [title |-> title,
                           outcome |-> IF Truthy(tmdb_api_key) THEN outcome
                                       ELSE [kind |-> "none"],
                           record |-> movie_info]]
         ELSE UNCHANGED <<movies, lookups, lookup>>
  /\ titles' = [titles EXCEPT ![t] = Tail(@)]
  /\ UNCHANGED <<messages, tmdb_api_key, pc, route, prompt, pre, sent,
                 response, result, status, invoked, previous, ncalls,
                 candidates>>

\* line 117: requests.get(search_url) has no timeout, so a request that gets
\* no answer keeps its thread waiting
LookupNeverAnswers(t) ==
  /\ pc[t] = "enhance"
  /\ titles[t] # <<>>
  /\ Len(strip(Head(titles[t]))) > 3
  /\ Truthy(tmdb_api_key)
  /\ lookups' = [lookups EXCEPT ![t] = @ + 1]
  /\ pc' = [pc EXCEPT ![t] = "blocked"]
  /\ UNCHANGED <<messages, tmdb_api_key, route, prompt, pre, sent, response,
                 titles, movies, result, status, invoked, previous, ncalls, lookup, candidates>>

\* lines 98, 107 and 83: the loop is over, enhanced_data is returned
EnhanceReturn(t) ==
  /\ pc[t] = "enhance"
  /\ titles[t] = <<>>
  /\ Finish(t, route[t],
            Returned("generate_response",
                     [original_response |-> response[t], movies |-> movies[t]]))
  /\ Drop(t)
  /\ UNCHANGED <<messages, tmdb_api_key, route, prompt, pre, invoked, lookups,
                 previous, ncalls>>

\* the list of lines 146-149 with the roles given by the position in the log
chat_history_Alternating(ms) ==
  [i \in 1..Len(ms) |->
     [role |-> IF i % 2 = 1 THEN "user" ELSE "assistant",
      content |-> ms[i].content]]

\* lines 146-149: one {"role", "content"} dict per message of the log
chat_history(ms) ==
  [i \in 1..Len(ms) |->
     [role |-> IF ms[i].type = "human" THEN "user" ELSE "assistant",
      content |-> ms[i].content]]

\* lines 139-149: get_chat_history()
get_chat_history(t) ==
  /\ Enter(t, "", None)
  /\ Finish(t, "", Returned("get_chat_history", chat_history(messages)))
  /\ UNCHANGED messages

\* ClearEntry that leaves the first message of the log in place
ClearEntryKeepsFirst(t, rt) ==
  /\ Enter(t, rt, None)
  /\ messages' = IF messages = <<>> THEN <<>> ELSE <<Head(messages)>>
  /\ Finish(t, rt, Returned("clear_memory", None))

\* lines 151-158: clear_memory()
ClearEntry(t, rt) ==
  /\ Enter(t, rt, None)
  /\ messages' = <<>>
  /\ Finish(t, rt, Returned("clear_memory", None))

clear_memory(t) == ClearEntry(t, "")

\* StartEntry without the clear_memory() of line 168
StartEntryNoClear(t, rt) ==
  /\ Enter(t, rt, None)
  /\ pc' = [pc EXCEPT ![t] = "start_add"]
  /\ UNCHANGED <<messages, result, status>>

\* line 168: start_new_conversation() first clears the memory
StartEntry(t, rt) ==
  /\ Enter(t, rt, None)
  /\ messages' = <<>>
  /\ pc' = [pc EXCEPT ![t] = "start_add"]
  /\ UNCHANGED <<result, status>>

start_new_conversation(t) == StartEntry(t, "")

\* lines 169-171: add_ai_message(opening_message); return opening_message
StartAdd(t) ==
  /\ pc[t] = "start_add"
  /\ messages' = Append(messages, AIMessage(opening_message))
  /\ Finish(t, route[t],
            Returned("start_new_conversation", Str(opening_message)))
  /\ UNCHANGED <<tmdb_api_key, route, prompt, pre, sent, response, titles,
                 movies, invoked, lookups, previous, ncalls, lookup, candidates>>

\* the steps by which a call that was entered goes on
Continue(t) ==
  \/ Invoke(t)
  \/ \E r \in Replies : ModelReplies(t, r)
  \/ \E exc \in ModelExceptions : ModelRaises(t, exc)
  \/ ModelNeverAnswers(t)
  \/ \E outcome \in CatalogOutcomes : EnhanceTitle(t, outcome)
  \/ LookupNeverAnswers(t)
  \/ EnhanceReturn(t)
  \/ StartAdd(t)

Next ==
  \E t \in Threads :
    \/ \E p \in Prompts : generate_response(t, p)
    \/ clear_memory(t)
    \/ start_new_conversation(t)
    \/ get_chat_history(t)
    \/ Continue(t)

Spec == Init /\ [][Next]_vars

(* ------------------------------- routes -------------------------------- *)

Dict(d) == [type |-> "dict", val |-> d]

\* request.json of the requests the service may receive: not an object, an
\* object without a message, with an empty or non-text message, with a text
Bodies == {None,
           Dict([model |-> Str(<<"x">>)]),
           Dict([message |-> Str(<<>>)]),
           Dict([message |-> Num(7)]),
           Dict([message |-> Str(<<"h", "i">>)])}

\* app.py lines 30-39: validate_message(data) returns the message
MessageAccepted(data) ==
  /\ data.type = "dict"
  /\ Truthy(Get(data.val, "message"))
  /\ IsStr(Get(data.val, "message"))

\* app.py lines 44-50 and 102-108: the message is validated and passed to
\* generate_response; a ValueError of the validation is answered with 400
MessageRoute(t, rt, data) ==
  IF MessageAccepted(data)
  THEN GenerateEntry(t, rt, Get(data.val, "message"))
  ELSE /\ Enter(t, rt, None)
       /\ Finish(t, rt, Raised("validate_message", "ValueError"))
       /\ UNCHANGED messages

\* POST /api/send-message
send_message(t, data) == MessageRoute(t, "/api/send-message", data)

\* POST /recommend
get_recommendation(t, data) == MessageRoute(t, "/recommend", data)

\* POST /api/start-conversation
start_conversation(t) == StartEntry(t, "/api/start-conversation")

\* POST /api/clear-memory
clear_memory_route(t) == ClearEntry(t, "/api/clear-memory")

SvcNext ==
  \E t \in Threads :
    \/ \E data \in Bodies : send_message(t, data)
    \/ \E data \in Bodies : get_recommendation(t, data)
    \/ start_conversation(t)
    \/ clear_memory_route(t)
    \/ Continue(t)

\* the service as wired: the request threads share the engine
SvcSpec == SvcInit /\ [][SvcNext]_vars

\* the engine with a caller whose call, once entered, keeps being run
LiveSpec == Init /\ [][Next]_vars /\ WF_vars(Continue(1))

(* ------------------------- extraction alone ---------------------------- *)

\* longest text drawn from Alphabet
MaxText == 5

\* characters the two patterns of lines 91 and 96 tell apart
Alphabet == {"\"", "A", "b", " ", "1", ".", "(", "\n", ":"}

\* ... "Coherence" ... "Predestination" ...
ExampleQuoted ==
  <<".", ".", ".", " ", "\"", "C", "o", "h", "e", "r", "e", "n", "c", "e",
    "\"", " ", ".", ".", ".", " ", "\"", "P", "r", "e", "d", "e", "s", "t",
    "i", "n", "a", "t", "i", "o", "n", "\"", " ", ".", ".", ".">>

\* 1. Arrival (2016)\n2. Annihilation - a great watch
ExampleList ==
  <<"1", ".", " ", "A", "r", "r", "i", "v", "a", "l", " ", "(", "2", "0",
    "1", "6", ")", "\n", "2", ".", " ", "A", "n", "n", "i", "h", "i", "l",
    "a", "t", "i", "o", "n", " ", "-", " ", "a", " ", "g", "r", "e", "a",
    "t", " ", "w", "a", "t", "c", "h">>

\* Watch: Heat - cool! Or: Up?
ExampleColon ==
  <<"W", "a", "t", "c", "h", ":", " ", "H", "e", "a", "t", " ", "-", " ",
    "c", "o", "o", "l", "!", " ", "O", "r", ":", " ", "U", "p", "?">>

\* ""Dune""
ExampleDoubled ==
  <<"\"", "\"", "D", "u", "n", "e", "\"", "\"">>

\* texts the model may answer with when only the extraction is looked at
ExtractTexts ==
  UNION {[1..n -> Alphabet] : n \in 0..MaxText}
    \cup {ExampleQuoted, ExampleList, ExampleColon, ExampleDoubled}

\* the engine built without a catalog key (line 113 answers every lookup)
ExtractInit == InitFor({1}) /\ tmdb_api_key = None

\* one generate_response call on the fresh engine, answered by any text
ExtractNext ==
  \E t \in Threads :
    \/ ncalls = 0 /\ generate_response(t, Str(<<"h", "i">>))
    \/ Invoke(t)
    \/ pc[t] = "waiting" /\ \E r \in ExtractTexts : ModelReplies(t, r)
    \/ \E outcome \in {[kind |-> "raise"]} : EnhanceTitle(t, outcome)
    \/ EnhanceReturn(t)

ExtractSpec == ExtractInit /\ [][ExtractNext]_vars

(* ------------------------------ properties ----------------------------- *)

\* thread t is between entering generate_response and leaving it
InGenerate(t) == pc[t] \in {"invoke", "waiting", "enhance", "blocked"}

\* the last call of thread t was generate_response and has ended
GenerateEnded(t) == pc[t] = "idle" /\ result[t].op = "generate_response"

\* the user turn the current or last generate_response call of t logs
UserTurn(t) == HumanMessage(prompt[t].val)

\* C1: when the model invocation of a generate_response call raises, the
\* call raises that exception to its caller and the log is the log the call
\* was entered on followed by one user turn with the prompt, and nothing else.
C1_ModelFailureKeepsOnlyUserTurn ==
  \A t \in Threads :
    (GenerateEnded(t) /\ result[t].kind = "raise" /\ invoked[t])
      => /\ result[t].exc \in ModelExceptions
         /\ messages = Append(pre[t], UserTurn(t))
         /\ Len(messages) = Len(pre[t]) + 1

C1_Witness ==
  \E t \in Threads :
    /\ GenerateEnded(t) /\ result[t].kind = "raise" /\ invoked[t]
    /\ pre[t] # <<>>

\* C2: a generate_response call with a valid prompt has appended exactly one
\* user turn to the log before the model is invoked, and the messages passed
\* to the model are the log the call was entered on followed by that turn.
C2_ModelGetsLogPlusUserTurn ==
  \A t \in Threads :
    /\ pc[t] = "invoke"
         => ~invoked[t] /\ messages = Append(pre[t], UserTurn(t))
    /\ pc[t] = "waiting"
         => invoked[t] /\ sent[t] = Append(pre[t], UserTurn(t))

C2_Witness ==
  \E t \in Threads : pc[t] = "waiting" /\ Len(pre[t]) >= 2

\* C3: when generate_response returns, the log is the log the call was
\* entered on followed by the user turn and then the assistant turn with the
\* model's reply, and original_response of the returned value is that reply.
C3_SuccessAppendsUserThenAssistant ==
  \A t \in Threads :
    /\ (GenerateEnded(t) /\ result[t].kind = "return")
         => /\ messages = pre[t] \o <<UserTurn(t),
                                      AIMessage(result[t].value.original_response)>>
            /\ Len(messages) = Len(pre[t]) + 2
    /\ (pc[t] = "enhance")
         => messages = pre[t] \o <<UserTurn(t), AIMessage(response[t])>>

C3_Witness ==
  \E t \in Threads :
    /\ GenerateEnded(t) /\ result[t].kind = "return"
    /\ pre[t] # <<>>
    /\ result[t].value.original_response = ReplyQuoted
    /\ result[t].value.movies # <<>>

\* C4: generate_response with an empty or non-text prompt raises ValueError
\* with the log unchanged, the model not invoked and no catalog request
\* issued; no call with such a prompt gets past the check.
C4_InvalidPromptRejected ==
  \A t \in Threads :
    /\ (GenerateEnded(t) /\ (~Truthy(prompt[t]) \/ ~IsStr(prompt[t])))
         => /\ result[t].kind = "raise" /\ result[t].exc = "ValueError"
            /\ messages = pre[t]
            /\ ~invoked[t] /\ lookups[t] = 0
    /\ InGenerate(t) => Truthy(prompt[t]) /\ IsStr(prompt[t])

C4_Witness ==
  \E t \in Threads :
    /\ GenerateEnded(t) /\ prompt[t] = Num(7)
    /\ pre[t] # <<>>

\* C5: when start_new_conversation returns, from whatever log it was called
\* on, the log is the single assistant turn with the opening message, the
\* returned value is that message and the model was not invoked.
C5_StartLeavesOnlyOpening ==
  \A t \in Threads :
    (pc[t] = "idle" /\ result[t].op = "start_new_conversation")
      => /\ messages = <<AIMessage(opening_message)>>
         /\ result[t].kind = "return"
         /\ result[t].value = Str(opening_message)
         /\ ~invoked[t]
         /\ \A i \in 1..Len(messages) : messages[i].type # "human"

C5_Witness ==
  \E t \in Threads :
    /\ pc[t] = "idle" /\ result[t].op = "start_new_conversation"
    /\ previous.op = "clear_memory"
    /\ \E i \in 1..Len(previous.pre) : previous.pre[i].type = "human"

\* C6: when a generate_response call whose model invocation raised is
\* followed by a call with the same prompt that returns, the log is the log
\* the first call was entered on followed by the user turn twice and then the
\* assistant turn with the reply.
C6_RetryDuplicatesUserTurn ==
  \A t \in Threads :
    (/\ GenerateEnded(t) /\ result[t].kind = "return"
     /\ previous.op = "generate_response" /\ previous.kind = "raise"
     /\ previous.prompt = prompt[t])
      => messages = previous.pre \o
                      <<UserTurn(t), UserTurn(t),
                        AIMessage(result[t].value.original_response)>>

C6_Witness ==
  \E t \in Threads :
    /\ GenerateEnded(t) /\ result[t].kind = "return"
    /\ previous.op = "generate_response" /\ previous.kind = "raise"
    /\ previous.prompt = prompt[t]
    /\ previous.pre # <<>>

\* C7: no turn of the log has empty content, whatever the model answers.
C7_NoEmptyTurn ==
  \A i \in 1..Len(messages) : messages[i].content # <<>>

\* C8: the generate_response calls of the service do not overlap: at most
\* one request thread is inside generate_response, and from a request's user
\* turn to its assistant turn no other request appends to or clears the log.
C8_GenerateCallsSerialized ==
  /\ Cardinality({t \in Threads : InGenerate(t)}) <= 1
  /\ \A t \in Threads :
       pc[t] \in {"invoke", "waiting"} => messages = Append(pre[t], UserTurn(t))

\* C9: every generate_response call that was entered ends, by returning or
\* by raising.
C9_GenerateTerminates == InGenerate(1) ~> (pc[1] = "idle")

\* the candidates of ts that pass the length test, stripped, in order
RECURSIVE Kept(_)
Kept(ts) ==
  IF ts = <<>> THEN <<>>
  ELSE (IF Len(strip(Head(ts))) > 3 THEN <<strip(Head(ts))>> ELSE <<>>)
         \o Kept(Tail(ts))

\* the keys of the record lines 125-133 build, other than the queried title
RecordFields == {"tmdb_title", "poster_url", "overview", "release_date",
                 "vote_average", "tmdb_id"}

\* C10: with no catalog key, every record the resolver has returned carries
\* the title it was asked for and has each other field present and None,
\* and no catalog request was issued.
C10_NoKeyRecordHasAllFieldsNull ==
  ~Truthy(tmdb_api_key)
    => \A t \in Threads :
         /\ lookups[t] = 0
         /\ \A i \in 1..Len(movies[t]) :
              /\ movies[t][i].title = Kept(movie_titles(response[t]))[i]
              /\ \A f \in RecordFields :
                   f \in DOMAIN movies[t][i] /\ movies[t][i][f] = None

\* the catalog answered with a result list whose first entry is a match
MatchFound(outcome) ==
  /\ outcome.kind = "json"
  /\ IsObject(outcome.data)
  /\ "results" \in DOMAIN outcome.data
  /\ outcome.data.results # <<>>
  /\ IsObject(outcome.data.results[1])

\* thread t has issued a catalog request for a title and got outcome back
Looked(t) == lookup[t].outcome.kind \in {"raise", "json"}

\* C11: with a catalog key, when the request for a title ends in anything
\* but a result list with a match (an exception, a malformed answer, no
\* results), _get_movie_info returns normally the record it returns for that
\* title without a key, and that record is appended to the movies.
C11_FailedLookupGivesNoKeyRecord ==
  \A t \in Threads :
    (Looked(t) /\ ~MatchFound(lookup[t].outcome))
      => /\ lookup[t].record = get_movie_info(None, lookup[t].title, [kind |-> "none"])
         /\ lookup[t].record.title = lookup[t].title
         /\ movies[t] # <<>>
         /\ movies[t][Len(movies[t])] = lookup[t].record
         /\ pc[t] \in {"enhance", "blocked"}

C11_Witness ==
  \E t \in Threads :
    /\ Truthy(tmdb_api_key)
    /\ lookup[t].outcome = [kind |-> "json", data |-> [results |-> <<>>]]
    /\ lookup[t].title = <<"D", "u", "n", "e">>

\* the record _get_movie_info is to return for title when the request ended
\* with outcome
RecordFor(title, outcome) ==
  IF MatchFound(outcome)
  THEN MovieRecord(title, outcome.data.results[1])
  ELSE Placeholder(title)

\* what a step of the call of thread t may do once the model has answered
AfterReplyStep(t) ==
  pc[t] = "enhance"
    => \/ /\ pc'[t] = "enhance"
          /\ Len(movies'[t]) <= Len(movies[t]) + 1
          /\ SubSeq(movies'[t], 1, Len(movies[t])) = movies[t]
          /\ Len(movies'[t]) = Len(movies[t]) + 1
               => /\ Looked(t)' \/ ~Truthy(tmdb_api_key)
                  /\ movies'[t][Len(movies'[t])]
                       = RecordFor(lookup'[t].title, lookup'[t].outcome)
       \/ /\ pc'[t] = "idle"
          /\ result'[t].kind = "return"
          /\ result'[t].value.movies = movies[t]
       \/ pc'[t] = "blocked"

\* C12: once the model has answered, no step of generate_response raises to
\* the caller: the call goes on or returns. A request that fails puts the
\* placeholder in the place of its own title's record and leaves the records
\* already made as they are, and each record is the one its own request
\* leads to, whatever the requests for the other titles did.
C12_LookupFailureDegradesOneRecord ==
  [][\A t \in Threads : AfterReplyStep(t)]_vars

C12_Witness ==
  \E t \in Threads :
    /\ GenerateEnded(t) /\ result[t].kind = "return"
    /\ Truthy(tmdb_api_key)
    /\ result[t].value.movies
         = <<Placeholder(<<"H", "e", "a", "t">>),
             MovieRecord(<<"H", "e", "a", "t">>, MovieWithPoster)>>

\* the queried titles of the records ms, in order
TitlesOf(ms) == [i \in 1..Len(ms) |-> ms[i].title]

\* C13: the records of a reply are, in order, one for each candidate of the
\* reply that passes the length test, a title that occurs twice getting two
\* records: while the loop runs the records made so far followed by what the
\* remaining candidates will give are those titles, and the returned value
\* carries the reply unchanged with exactly those records.
C13_OneRecordPerKeptCandidateInOrder ==
  \A t \in Threads :
    /\ pc[t] = "enhance"
         => TitlesOf(movies[t]) \o Kept(titles[t])
              = Kept(movie_titles(response[t]))
    /\ (GenerateEnded(t) /\ result[t].kind = "return")
         => TitlesOf(result[t].value.movies)
              = Kept(movie_titles(result[t].value.original_response))

C13_Witness ==
  \E t \in Threads :
    /\ GenerateEnded(t) /\ result[t].kind = "return"
    /\ result[t].value.original_response = ReplyTwice
    /\ TitlesOf(result[t].value.movies)
         = <<<<"H", "e", "a", "t">>, <<"H", "e", "a", "t">>>>

\* C14: when the quoted pattern matches anywhere in the reply, the
\* candidates are its matches alone and the returned records are those that
\* pass the length test, none when none passes; the matches of the
\* structural pattern are the candidates only when the quoted pattern
\* matches nowhere.
C14_QuotedTierWinsWhenNonEmpty ==
  \A t \in Threads :
    /\ pc[t] = "enhance"
         => /\ FindQuoted(response[t]) # <<>>
                 => candidates[t] = FindQuoted(response[t])
            /\ FindQuoted(response[t]) = <<>>
                 => candidates[t] = FindStructural(response[t])
    /\ (GenerateEnded(t) /\ result[t].kind = "return")
         => LET r == result[t].value.original_response
                titled == TitlesOf(result[t].value.movies)
            IN  /\ FindQuoted(r) # <<>> => titled = Kept(FindQuoted(r))
                /\ FindQuoted(r) = <<>> => titled = Kept(FindStructural(r))

C14_Witness ==
  \E t \in Threads :
    /\ GenerateEnded(t) /\ result[t].kind = "return"
    /\ FindQuoted(result[t].value.original_response) # <<>>
    /\ Kept(FindStructural(result[t].value.original_response)) # <<>>
    /\ result[t].value.movies = <<>>

\* the positions of s that hold a double quote
Quotes(s) == {i \in 1..Len(s) : s[i] = "\""}

\* the quotes of s that open a pair when the quotes are paired off from the
\* left: an even number of quotes before them and a quote after them
Openers(s) ==
  {i \in Quotes(s) : /\ Cardinality({x \in Quotes(s) : x < i}) % 2 = 0
                     /\ \E j \in Quotes(s) : j > i}

\* the quote that closes the pair opened at i
Closer(s, i) ==
  CHOOSE j \in Quotes(s) : j > i /\ \A x \in Quotes(s) : x > i => x >= j

\* the substrings of s inside its successive pairs of quotes, in order
PairedSpans(s) ==
  LET opener(k) ==
        CHOOSE i \in Openers(s) : Cardinality({x \in Openers(s) : x < i}) = k - 1
  IN  [k \in 1..Cardinality(Openers(s)) |->
         SubSeq(s, opener(k) + 1, Closer(s, opener(k)) - 1)]

\* the spans that are not empty
NonEmptySpans(s) == SelectSeq(PairedSpans(s), LAMBDA c : c # <<>>)

\* no quote of s is directly followed by a quote
NoAdjacentQuotes(s) == \A i \in Quotes(s) : i + 1 \notin Quotes(s)

\* what the candidates of reply r are when the quoted tier gives spans
CandidatesWithSpans(r, spans) ==
  IF spans # <<>> THEN spans ELSE FindStructural(r)

\* C15 as stated: for every reply the candidates of the quoted tier are the
\* substrings inside the successive pairs of double quotes, in order.
C15_QuotedCandidatesArePairedSpans ==
  \A t \in Threads :
    pc[t] = "enhance"
      => candidates[t] = CandidatesWithSpans(response[t], NonEmptySpans(response[t]))

\* C15: for every reply in which no double quote directly follows another,
\* the candidates of the quoted tier are the substrings inside the successive
\* pairs of double quotes, in order; ... "Coherence" ... "Predestination" ...
\* gives Coherence, Predestination.
C15_PairedSpansWhenNoAdjacentQuotes ==
  \A t \in Threads :
    pc[t] = "enhance"
      => /\ NoAdjacentQuotes(response[t])
              => candidates[t]
                   = CandidatesWithSpans(response[t], PairedSpans(response[t]))
         /\ response[t] = ExampleQuoted
              => candidates[t]
                   = <<<<"C", "o", "h", "e", "r", "e", "n", "c", "e">>,
                       <<"P", "r", "e", "d", "e", "s", "t", "i", "n", "a", "t", "i", "o", "n">>>>

C15_Witness ==
  \E t \in Threads :
    /\ pc[t] = "enhance"
    /\ response[t] = ExampleQuoted
    /\ Len(candidates[t]) = 2
    /\ titles[t] = <<>>

\* the run of s from g up to e (exclusive) starts where the structural
\* pattern lets a title start: at the start of a line, or after digits, a
\* period and whitespace, or after a colon and whitespace
StartsTitle(s, g) ==
  \/ AtLineStart(s, g)
  \/ \E m \in 1..(g - 2) :
       /\ \A x \in (m + 1)..(g - 1) : s[x] \in Whitespace
       /\ \/ s[m] = ":"
          \/ s[m] = "." /\ m > 1 /\ s[m - 1] \in Digits

\* position e of s is followed, after whitespace if any, by a parenthesis, a
\* dash or a period
BeforeMark(s, e) ==
  \E m \in e..Len(s) :
    /\ \A x \in e..(m - 1) : s[x] \in Whitespace
    /\ s[m] \in {"(", "-", "."}

\* candidate c is a run of s that starts with a capital where a title may
\* start and whose end satisfies Ends
IsRun(s, c, Ends(_, _)) ==
  /\ c # <<>>
  /\ c[1] \in Upper
  /\ \E g \in 1..Len(s) :
       /\ g + Len(c) - 1 <= Len(s)
       /\ SubSeq(s, g, g + Len(c) - 1) = c
       /\ StartsTitle(s, g)
       /\ Ends(s, g + Len(c))

\* the end of the text, or the newline the text ends with
EndsAtMarkOrText(s, e) ==
  \/ BeforeMark(s, e)
  \/ e = Len(s) + 1
  \/ e = Len(s) /\ s[e] = "\n"

EndsAtMarkOrLine(s, e) == BeforeMark(s, e) \/ AtLineEnd(s, e)

\* C16 as stated: for a reply without double quotes each candidate is a
\* capitalized run that starts at a line start or after an enumeration marker
\* or a colon, and ends before a parenthesis, a dash, a period or the end of
\* the text.
C16_RunsEndAtMarkOrEndOfText ==
  \A t \in Threads :
    (pc[t] = "enhance" /\ Quotes(response[t]) = {})
      => \A k \in 1..Len(candidates[t]) :
           IsRun(response[t], candidates[t][k], EndsAtMarkOrText)

\* C16: for a reply without double quotes each candidate is a capitalized
\* run that starts at a line start or after an enumeration marker or a colon,
\* and ends before a parenthesis, a dash, a period or the end of a line (the
\* end of the text included); 1. Arrival (2016)\n2. Annihilation - a great
\* watch gives Arrival, Annihilation.
C16_RunsEndAtMarkOrEndOfLine ==
  \A t \in Threads :
    (pc[t] = "enhance" /\ Quotes(response[t]) = {})
      => /\ \A k \in 1..Len(candidates[t]) :
              IsRun(response[t], candidates[t][k], EndsAtMarkOrLine)
         /\ response[t] = ExampleList
              => candidates[t] = <<<<"A", "r", "r", "i", "v", "a", "l">>,
                                  <<"A", "n", "n", "i", "h", "i", "l", "a", "t", "i", "o", "n">>>>

C16_Witness ==
  \E t \in Threads :
    /\ pc[t] = "enhance"
    /\ response[t] = ExampleList
    /\ Len(candidates[t]) = 2
    /\ titles[t] = <<>>
    /\ Len(movies[t]) = 2

\* title has at least 4 characters and no whitespace at either end
Floored(title) ==
  /\ Len(title) >= 4
  /\ title[1] \notin Whitespace
  /\ title[Len(title)] \notin Whitespace

\* how many of the first n candidates of thread t are longer than 3
\* characters once trimmed
LongAmong(t, n) ==
  Cardinality({k \in 1..n : Len(strip(candidates[t][k])) >= 4})

\* C17: every record made or returned has a queried title of at least 4
\* characters with no whitespace at either end, and so has every title handed
\* to _get_movie_info; the records made, and with a catalog key the requests
\* issued, are as many as the candidates gone through that trim to 4
\* characters or more, so a shorter one gets neither.
C17_ShortCandidatesAreSkipped ==
  \A t \in Threads :
    /\ \A i \in 1..Len(movies[t]) : Floored(movies[t][i].title)
    /\ lookup[t] # NoLookup => Floored(lookup[t].title)
    /\ pc[t] = "enhance"
         => LET long == LongAmong(t, Len(candidates[t]) - Len(titles[t]))
            IN  /\ Len(movies[t]) = long
                /\ lookups[t] = IF Truthy(tmdb_api_key) THEN long ELSE 0
    /\ (GenerateEnded(t) /\ result[t].kind = "return")
         => \A i \in 1..Len(result[t].value.movies) :
              Floored(result[t].value.movies[i].title)

C17_Witness ==
  \E t \in Threads :
    /\ GenerateEnded(t) /\ result[t].kind = "return"
    /\ result[t].value.original_response = ReplyTwice
    /\ Truthy(tmdb_api_key)
    /\ lookups[t] = 2
    /\ Len(result[t].value.movies) = 2

\* thread t has just read the history
HistoryRead(t) == pc[t] = "idle" /\ result[t].op = "get_chat_history"

\* C18: the history read back has one entry per turn of the log, in the order
\* the turns were appended, each with the turn's content and with role user
\* for a user turn and assistant for an assistant turn, also when turns of
\* the same role follow one another; the read returns normally and the log
\* after it is the log before it.
C18_HistoryIsTheLog ==
  \A t \in Threads :
    HistoryRead(t)
      => /\ result[t].kind = "return"
         /\ messages = pre[t]
         /\ Len(result[t].value) = Len(messages)
         /\ \A i \in 1..Len(messages) :
              /\ DOMAIN result[t].value[i] = {"role", "content"}
              /\ result[t].value[i].content = messages[i].content
              /\ messages[i] = HumanMessage(messages[i].content)
                   => result[t].value[i].role = "user"
              /\ messages[i] = AIMessage(messages[i].content)
                   => result[t].value[i].role = "assistant"

C18_Witness ==
  \E t \in Threads :
    /\ HistoryRead(t)
    /\ Len(result[t].value) = 3
    /\ result[t].value[1].role = "user"
    /\ result[t].value[2].role = "user"
    /\ result[t].value[3].role = "assistant"
    /\ result[t].value[3].content # <<>>

\* C19: clear_memory returns normally and leaves the log empty whatever the
\* log was, so that a second clear_memory right after the first leaves the
\* same empty log.
C19_ClearLeavesEmptyLog ==
  \A t \in Threads :
    (pc[t] = "idle" /\ result[t].op = "clear_memory")
      => /\ result[t].kind = "return"
         /\ messages = <<>>
         /\ previous.op = "clear_memory" => pre[t] = <<>>

C19_Witness ==
  \E t \in Threads :
    /\ pc[t] = "idle" /\ result[t].op = "clear_memory"
    /\ previous.op = "clear_memory"
    /\ previous.pre # <<>>
    /\ pre[t] = <<>>
    /\ messages = <<>>

\* a request of thread t to one of the two message routes has been answered
MessageAnswered(t) ==
  /\ pc[t] = "idle"
  /\ route[t] \in {"/api/send-message", "/recommend"}
  /\ result[t].kind # "none"

\* C20: a request to /api/send-message or /recommend whose message is
\* missing, empty or not a string is answered with 400; one whose model
\* invocation failed is answered with 500, whatever was raised; one that got
\* as far as the lookups is answered with 200.
C20_ModelFailureAnswered500 ==
  \A t \in Threads :
    MessageAnswered(t)
      => /\ result[t].op = "validate_message" => status[t] = 400
         /\ (result[t].op = "generate_response" /\ result[t].kind = "raise"
               /\ invoked[t])
              => status[t] = 500
         /\ result[t].kind = "return" => status[t] = 200

\* what a step may do to the log around the extraction of thread t: the
\* extraction is entered only from the wait for the model, with the model
\* invoked and the assistant turn appended by that very step, and no step
\* taken while it runs, its last one included, changes the log
ExtractionKeepsLog(t) ==
  /\ (pc[t] # "enhance" /\ pc'[t] = "enhance")
       => /\ pc[t] = "waiting"
          /\ invoked[t]
          /\ messages' = pre[t] \o <<UserTurn(t), AIMessage(response'[t])>>
  /\ pc[t] = "enhance"
       => /\ messages' = messages
          /\ messages = pre[t] \o <<UserTurn(t), AIMessage(response[t])>>
          /\ pc'[t] \in {"enhance", "blocked", "idle"}

\* C21: extraction and the lookups begin only once the model has answered and
\* the assistant turn is in the log, and from then until generate_response
\* ends no step changes the log: the user turn and the assistant turn of the
\* exchange stay its last two entries whatever the lookups do.
C21_EnrichmentLeavesLogAlone ==
  [][\A t \in Threads : ExtractionKeepsLog(t)]_vars

C21_Witness ==
  \E t \in Threads :
    /\ GenerateEnded(t) /\ result[t].kind = "return"
    /\ Truthy(tmdb_api_key)
    /\ lookups[t] = 2
    /\ result[t].value.movies
         = <<Placeholder(<<"H", "e", "a", "t">>),
             Placeholder(<<"H", "e", "a", "t">>)>>
    /\ messages = pre[t] \o <<UserTurn(t), AIMessage(ReplyTwice)>>

\* the value of key k in the catalog entry m, None when m has no such key
Field(m, k) == IF k \in DOMAIN m THEN m[k] ELSE None

\* record rec is built from catalog entry m for the queried title
BuiltFrom(rec, title, m) ==
  /\ DOMAIN rec = {"title"} \cup RecordFields
  /\ rec.title = title
  /\ rec.tmdb_title = Field(m, "title")
  /\ rec.overview = Field(m, "overview")
  /\ rec.release_date = Field(m, "release_date")
  /\ rec.vote_average = Field(m, "vote_average")
  /\ rec.tmdb_id = Field(m, "id")
  /\ Field(m, "poster_path") = None => rec.poster_url = None
  /\ (Field(m, "poster_path") # None /\ Field(m, "poster_path").val # <<>>)
       => /\ rec.poster_url.type = "str"
          /\ rec.poster_url.val = PosterBase \o Field(m, "poster_path").val

\* C22: when the catalog answers with a result list that has a match,
\* _get_movie_info returns a record with the queried title and with the
\* catalog title, overview, release date, rating and id of the first entry
\* of the list, whatever the entries after it; its poster_url is the image
\* base path followed by the first entry's poster path, and None when that
\* entry has no poster path. The record is what is appended to the movies.
C22_RecordBuiltFromFirstMatch ==
  \A t \in Threads :
    (Looked(t) /\ MatchFound(lookup[t].outcome))
      => /\ BuiltFrom(lookup[t].record, lookup[t].title,
                      lookup[t].outcome.data.results[1])
         /\ movies[t] # <<>>
         /\ movies[t][Len(movies[t])] = lookup[t].record

C22_Witness ==
  \E t \in Threads :
    /\ pc[t] = "enhance"
    /\ Len(movies[t]) = 2
    /\ \A i \in 1..2 : DOMAIN movies[t][i] = {"title"} \cup RecordFields
    /\ movies[t][1].poster_url = Str(PosterBase \o <<"/", "a", ".", "j", "p", "g">>)
    /\ movies[t][1].tmdb_title = Str(<<"D", "u", "n", "e">>)
    /\ lookup[t].outcome
         = [kind |-> "json", data |-> [results |-> <<MovieNoPoster, MovieWithPoster>>]]
    /\ movies[t][2].poster_url = None
    /\ movies[t][2].tmdb_title = Str(<<"U", "p">>)
    /\ movies[t][2].title = <<"H", "e", "a", "t">>

====
